---- MODULE Spec2Model ----
(***************************************************************************)
(* Verification model of go-observability-demo: the telemetry set-up of    *)
(* internal/observability (tracer provider with a batching span processor  *)
(* and a TraceIDRatioBased sampler, trace-correlated logging), the order   *)
(* handler of internal/service and the process lifecycle of                *)
(* cmd/server/main.go.                                                     *)
(*                                                                         *)
(* The span pipeline is the batch span processor that                      *)
(* sdktrace.WithBatcher(exporter, WithMaxExportBatchSize,                  *)
(* WithBatchTimeout, WithMaxQueueSize) installs (tracing.go:85-90): a      *)
(* buffered channel of MaxQueueSize ended spans, one worker goroutine      *)
(* that moves spans from the channel into a batch and exports the batch    *)
(* when it reaches MaxExportBatchSize or when the batch timer expires,     *)
(* and a Shutdown that stops intake and drains the channel.                *)
(***************************************************************************)
EXTENDS Integers, Sequences, FiniteSets, TLC

(***************************************************************************)
(* Bounds of the model.  MaxQueueSize and MaxExportBatchSize stand for the *)
(* configured 2048 and 512, scaled down; the 5 s batch timeout is the      *)
(* untimed action TimerExpire.                                             *)
(***************************************************************************)
MaxQueueSize == 2

MaxExportBatchSize == 2

MaxSpans == 3

VARIABLES
    queue,        \* bsp.queue: the buffered channel of ended spans
    batch,        \* bsp.batch: the in-progress batch of the worker
    dropped,      \* bsp.dropped: spans shed because the channel was full
    stopped,      \* bsp.stopped: set by Shutdown, read by OnEnd
    workerPc,     \* position of the worker goroutine
    resume,       \* where the worker continues after the export in flight
    timer,        \* the batch timer: "running", "expired" or "stopped"
    lifecycle,    \* "Running", "Draining" (Shutdown called), "Stopped"
    shutdownErr,  \* the error the shutdown function returned: "none", "nil", "deadline"
    deadlinePassed, \* the drain deadline of the caller has elapsed
    spanPc,       \* per producer span: "open", "enqueue" (inside OnEnd), "ended"
    sends,        \* history: the ExportSpans calls, each [items, cause]
    lastResult,   \* what the exporter answered last: "none", "ok", "failed"
    accepted,     \* history: spans the channel accepted, in order
    atDrain,      \* history: spans accepted before Shutdown was called
    history,      \* whether this run keeps the three histories
    samplingRate, \* the configured sampler fraction, in tenths
    served,       \* number of requests that have reached the handler
    req,          \* the request being served: handler position, inputs, response
    spans,        \* the spans the handler of that request started, in order
    env,          \* the ENVIRONMENT variable of the process ("" when unset)
    logLevelEnv,  \* the LOG_LEVEL variable of the process ("" when unset)
    mainPc,       \* position of main: "boot", "logger", "ready", "fatal" at start-up;
                  \* "start", "tracer", "meter", "initFailed", "serving",
                  \* "httpShutdown", "deferred", "exited" over the life of
                  \* the process
    loggerLevel,  \* the level of the logger NewLogger built
    ctx,          \* the span context of the context a caller holds
    logged,       \* the last LogWithTrace call: its inputs and the record emitted
    reEnded,      \* the span on which End was called a second time, 0 if none
    first,        \* what the first call of the shutdown function returned, "none" before
    second,       \* a second call of the shutdown function: "none", "meter" (past the
                  \* tracer provider), then what it returned
    reported,     \* the errors that calls of the span API have reported to their caller
    decided,      \* history: the sampler's decisions, each [env, trace, sampled]
    globals,      \* what InitObservability has installed with otel.Set...
    readerShut,   \* the shutdownOnce of the periodic metric reader has fired
    workers,      \* the background workers started: "span", "metric"
    mutex,        \* per key: holder of the lock of its sum aggregate (0 when free)
    sum,          \* the aggregated sum per (instrument, attribute set)
    tmp,          \* per producer: key and sum read under the lock, calls made
    pcM,          \* per producer: position inside Counter.Add
    added,        \* per key: Add calls that have returned
    exports       \* history: what each collection handed to the exporter

pvars == <<queue, batch, dropped, stopped, workerPc, resume, timer, lifecycle,
           shutdownErr, deadlinePassed, spanPc, sends, lastResult, accepted, atDrain, history>>

svars == <<samplingRate, served, req, spans>>

cvars == <<env, logLevelEnv, mainPc, loggerLevel, ctx, logged>>

avars == <<reEnded, first, second, reported, decided, globals, readerShut, workers>>

mvars == <<mutex, sum, tmp, pcM, added, exports>>

vars == <<pvars, svars, cvars, avars, mvars>>

SpanIds == 1..MaxSpans

Range(s) == {s[i] : i \in 1..Len(s)}

(***************************************************************************)
(* A history grows only in a run that keeps histories.                     *)
(***************************************************************************)
Note(h, x) == IF history THEN Append(h, x) ELSE h

(***************************************************************************)
(* Bounds of the metric model: producers calling Counter.Add, calls per    *)
(* producer, collections of the periodic reader.                           *)
(***************************************************************************)
NumProducers == 2

MaxAdds == 2

MaxTicks == 2

Producers == 1..NumProducers

(***************************************************************************)
(* The counter series the producers write: orders.created with the         *)
(* attribute set status=success.  Each instrument has an aggregate and a   *)
(* lock of its own, so the series of other instruments do not interact     *)
(* with this one.                                                          *)
(***************************************************************************)
Keys == {"orders.created"}

(***************************************************************************)
(* Both providers built and their workers running, no call of the          *)
(* shutdown function beyond main's, no second End.                         *)
(***************************************************************************)
ApiIdle ==
    /\ reEnded = 0
    /\ first = "none"
    /\ second = "none"
    /\ reported = {}
    /\ decided = <<>>
    /\ globals = {"tracer", "meter", "propagator"}
    /\ readerShut = FALSE
    /\ workers = {"span", "metric"}

(***************************************************************************)
(* The instruments of NewMetrics before any measurement.                   *)
(***************************************************************************)
MetricsIdle ==
    /\ mutex = [k \in Keys |-> 0]
    /\ sum = [k \in Keys |-> 0]
    /\ tmp = [p \in Producers |-> [key |-> "", val |-> 0, calls |-> 0]]
    /\ pcM = [p \in Producers |-> "idle"]
    /\ added = [k \in Keys |-> 0]
    /\ exports = <<>>

(***************************************************************************)
(* The context main hands to the telemetry shutdown function is            *)
(* context.Background() (main.go:19, main.go:29): it carries no deadline,  *)
(* the 30 s shutdownCtx of main.go:80 is given to server.Shutdown only.    *)
(***************************************************************************)
ShutdownCtxHasDeadline == FALSE

(***************************************************************************)
(* Mutant of EnqueueDrop: the blocking send of a processor built with      *)
(* WithBlocking, which waits for room in the channel.                      *)
(***************************************************************************)
EnqueueBlockOnQueueFull(s) ==
    /\ Len(queue) < MaxQueueSize
    /\ queue' = Append(queue, s)
    /\ accepted' = Note(accepted, s)
    /\ dropped' = dropped

(***************************************************************************)
(* enqueueDrop: a non-blocking send on the channel; a full channel sheds   *)
(* the span and counts it.                                                 *)
(***************************************************************************)
EnqueueDrop(s) ==
    IF Len(queue) < MaxQueueSize
    THEN /\ queue' = Append(queue, s)
         /\ accepted' = Note(accepted, s)
         /\ dropped' = dropped
    ELSE /\ dropped' = dropped + 1
         /\ UNCHANGED <<queue, accepted>>

(***************************************************************************)
(* span.End() of a recorded span: the processor's OnEnd reads the stopped  *)
(* flag and returns when it is set; otherwise it goes on to enqueue.       *)
(* Span ids number the spans in the order in which End is called on them.  *)
(***************************************************************************)
OnEnd(s) ==
    /\ spanPc[s] = "open"
    /\ \A t \in 1..(s - 1) : spanPc[t] # "open"
    /\ spanPc' = [spanPc EXCEPT ![s] = IF stopped THEN "ended" ELSE "enqueue"]
    /\ UNCHANGED <<avars, mvars, queue, batch, dropped, stopped, workerPc, resume, timer,
                   lifecycle, shutdownErr, deadlinePassed, sends, lastResult,
                   accepted, atDrain, history, svars, cvars>>

Enqueue(s) ==
    /\ spanPc[s] = "enqueue"
    /\ EnqueueDrop(s)
    /\ spanPc' = [spanPc EXCEPT ![s] = "ended"]
    /\ UNCHANGED <<avars, mvars, batch, stopped, workerPc, resume, timer, lifecycle,
                   shutdownErr, deadlinePassed, sends, lastResult, atDrain, history, svars, cvars>>

(***************************************************************************)
(* exportSpans: re-arm the timer, and hand a non-empty batch to the        *)
(* exporter; b is the batch at the call, next the worker's continuation.   *)
(***************************************************************************)
ExportSpans(b, cause, next) ==
    /\ timer' = "running"
    /\ IF Len(b) > 0
       THEN /\ sends' = Note(sends, [items |-> b, cause |-> cause])
            /\ workerPc' = "exporting"
            /\ resume' = next
       ELSE /\ sends' = sends
            /\ workerPc' = next
            /\ resume' = resume

(***************************************************************************)
(* Mutant of ReceiveSpan: the size test is off by one, so a batch is       *)
(* exported only when it exceeds MaxExportBatchSize.                       *)
(***************************************************************************)
ReceiveSpanLateFlush ==
    /\ workerPc = "select"
    /\ Len(queue) > 0
    /\ queue' = Tail(queue)
    /\ batch' = Append(batch, Head(queue))
    /\ IF Len(batch') > MaxExportBatchSize
       THEN ExportSpans(batch', "size", "select")
       ELSE UNCHANGED <<timer, sends, workerPc, resume>>
    /\ UNCHANGED <<avars, mvars, dropped, stopped, lifecycle, shutdownErr, deadlinePassed,
                   spanPc, lastResult, accepted, atDrain, history, svars, cvars>>

(***************************************************************************)
(* processQueue, case sd := <-bsp.queue                                    *)
(***************************************************************************)
ReceiveSpan ==
    /\ workerPc = "select"
    /\ Len(queue) > 0
    /\ queue' = Tail(queue)
    /\ batch' = Append(batch, Head(queue))
    /\ IF Len(batch') >= MaxExportBatchSize
       THEN ExportSpans(batch', "size", "select")
       ELSE UNCHANGED <<timer, sends, workerPc, resume>>
    /\ UNCHANGED <<avars, mvars, dropped, stopped, lifecycle, shutdownErr, deadlinePassed,
                   spanPc, lastResult, accepted, atDrain, history, svars, cvars>>

(***************************************************************************)
(* The batch timer expires (BatchTimeout after it was last re-armed).      *)
(***************************************************************************)
TimerExpire ==
    /\ timer = "running"
    /\ timer' = "expired"
    /\ UNCHANGED <<avars, mvars, queue, batch, dropped, stopped, workerPc, resume, lifecycle,
                   shutdownErr, deadlinePassed, spanPc, sends, lastResult,
                   accepted, atDrain, history, svars, cvars>>

(***************************************************************************)
(* Mutant of TimerFlush: the timer is re-armed but a batch below           *)
(* MaxExportBatchSize is kept for later.                                   *)
(***************************************************************************)
TimerFlushFullBatchOnly ==
    /\ workerPc = "select"
    /\ timer = "expired"
    /\ IF Len(batch) >= MaxExportBatchSize
       THEN ExportSpans(batch, "timer", "select")
       ELSE /\ timer' = "running"
            /\ UNCHANGED <<sends, workerPc, resume>>
    /\ UNCHANGED <<avars, mvars, queue, batch, dropped, stopped, lifecycle, shutdownErr,
                   deadlinePassed, spanPc, lastResult, accepted, atDrain,
                   history, svars, cvars>>

(***************************************************************************)
(* processQueue, case <-bsp.timer.C                                        *)
(***************************************************************************)
TimerFlush ==
    /\ workerPc = "select"
    /\ timer = "expired"
    /\ ExportSpans(batch, "timer", "select")
    /\ UNCHANGED <<avars, mvars, queue, batch, dropped, stopped, lifecycle, shutdownErr,
                   deadlinePassed, spanPc, lastResult, accepted, atDrain, history, svars, cvars>>

(***************************************************************************)
(* Mutant of ExportReturn: a batch whose export failed is kept for the     *)
(* next export.                                                            *)
(***************************************************************************)
ExportReturnKeepsFailedBatch(ok) ==
    /\ workerPc = "exporting"
    /\ batch' = IF ok THEN <<>> ELSE batch
    /\ lastResult' = IF ok THEN "ok" ELSE "failed"
    /\ workerPc' = resume
    /\ UNCHANGED <<avars, mvars, queue, dropped, stopped, resume, timer,
                   lifecycle, shutdownErr, deadlinePassed, spanPc, sends,
                   accepted, atDrain, history, svars, cvars>>

(***************************************************************************)
(* The exporter answers the call in flight; the batch is cleared on        *)
(* success and on failure alike (the error goes to the error handler).     *)
(***************************************************************************)
ExportReturn(ok) ==
    /\ workerPc = "exporting"
    /\ batch' = <<>>
    /\ lastResult' = IF ok THEN "ok" ELSE "failed"
    /\ workerPc' = resume
    /\ UNCHANGED <<avars, mvars, queue, dropped, stopped, resume, timer, lifecycle,
                   shutdownErr, deadlinePassed, spanPc, sends, accepted, atDrain, history, svars, cvars>>

(***************************************************************************)
(* The exporter does not answer the call in flight.                        *)
(***************************************************************************)
ExportHang ==
    /\ workerPc = "exporting"
    /\ workerPc' = "hung"
    /\ UNCHANGED <<avars, mvars, queue, batch, dropped, stopped, resume, timer, lifecycle,
                   shutdownErr, deadlinePassed, spanPc, sends, lastResult,
                   accepted, atDrain, history, svars, cvars>>

(***************************************************************************)
(* The export timeout of the batcher (WithExportTimeout is not given, so   *)
(* the default applies) cancels a call the exporter has not answered; the  *)
(* call fails and the batch is cleared.  An exporter that ignores the      *)
(* cancellation stays in "hung".                                           *)
(***************************************************************************)
ExportTimeout ==
    /\ workerPc = "hung"
    /\ batch' = <<>>
    /\ lastResult' = "failed"
    /\ workerPc' = resume
    /\ UNCHANGED <<avars, mvars, queue, dropped, stopped, resume, timer, lifecycle,
                   shutdownErr, deadlinePassed, spanPc, sends, accepted,
                   atDrain, history, svars, cvars>>

(***************************************************************************)
(* The shutdown function returned by InitObservability, called by main:    *)
(* tracerProvider.Shutdown(ctx) sets the stopped flag and closes stopCh.   *)
(***************************************************************************)
Shutdown ==
    /\ lifecycle = "Running"
    /\ lifecycle' = "Draining"
    /\ stopped' = TRUE
    /\ atDrain' = accepted
    /\ UNCHANGED <<avars, mvars, queue, batch, dropped, workerPc, resume, timer, shutdownErr,
                   deadlinePassed, spanPc, sends, lastResult, accepted, history, svars, cvars>>

(***************************************************************************)
(* Mutant of StopSignal: the worker exits on the stop signal without       *)
(* draining the channel or exporting the batch it holds.                   *)
(***************************************************************************)
StopSignalNoDrain ==
    /\ workerPc = "select"
    /\ stopped
    /\ workerPc' = "exited"
    /\ timer' = "stopped"
    /\ UNCHANGED <<avars, mvars, queue, batch, dropped, stopped, resume, lifecycle,
                   shutdownErr, deadlinePassed, spanPc, sends, lastResult,
                   accepted, atDrain, history, svars, cvars>>

(***************************************************************************)
(* processQueue, case <-bsp.stopCh: leave the loop, stop the timer, go on  *)
(* to drainQueue.                                                          *)
(***************************************************************************)
StopSignal ==
    /\ workerPc = "select"
    /\ stopped
    /\ workerPc' = "drain"
    /\ timer' = "stopped"
    /\ UNCHANGED <<avars, mvars, queue, batch, dropped, stopped, resume, lifecycle,
                   shutdownErr, deadlinePassed, spanPc, sends, lastResult,
                   accepted, atDrain, history, svars, cvars>>

(***************************************************************************)
(* drainQueue: take what the channel still holds, exporting every full     *)
(* batch, and make a final export when the channel is empty.               *)
(***************************************************************************)
DrainReceive ==
    /\ workerPc = "drain"
    /\ Len(queue) > 0
    /\ queue' = Tail(queue)
    /\ batch' = Append(batch, Head(queue))
    /\ IF Len(batch') = MaxExportBatchSize
       THEN ExportSpans(batch', "drain", "drain")
       ELSE UNCHANGED <<timer, sends, workerPc, resume>>
    /\ UNCHANGED <<avars, mvars, dropped, stopped, lifecycle, shutdownErr, deadlinePassed,
                   spanPc, lastResult, accepted, atDrain, history, svars, cvars>>

DrainFinal ==
    /\ workerPc = "drain"
    /\ Len(queue) = 0
    /\ ExportSpans(batch, "drain", "exited")
    /\ UNCHANGED <<avars, mvars, queue, batch, dropped, stopped, lifecycle, shutdownErr,
                   deadlinePassed, spanPc, lastResult, accepted, atDrain, history, svars, cvars>>

(***************************************************************************)
(* Shutdown returns nil once the worker has drained and exited.            *)
(***************************************************************************)
ShutdownReturn ==
    /\ lifecycle = "Draining"
    /\ workerPc = "exited"
    /\ lifecycle' = "Stopped"
    /\ shutdownErr' = "nil"
    /\ UNCHANGED <<avars, mvars, queue, batch, dropped, stopped, workerPc, resume, timer,
                   deadlinePassed, spanPc, sends, lastResult, accepted, atDrain, history, svars, cvars>>

(***************************************************************************)
(* The caller's drain deadline elapses.  Shutdown selects on ctx.Done():   *)
(* a context that carries the deadline makes it return at this moment.     *)
(***************************************************************************)
DeadlineElapse ==
    /\ lifecycle = "Draining"
    /\ ~deadlinePassed
    /\ deadlinePassed' = TRUE
    /\ IF ShutdownCtxHasDeadline
       THEN /\ lifecycle' = "Stopped"
            /\ shutdownErr' = "deadline"
       ELSE UNCHANGED <<lifecycle, shutdownErr>>
    /\ UNCHANGED <<avars, mvars, queue, batch, dropped, stopped, workerPc, resume, timer,
                   spanPc, sends, lastResult, accepted, atDrain, history, svars, cvars>>

PipelineInit ==
    /\ queue = <<>>
    /\ batch = <<>>
    /\ dropped = 0
    /\ stopped = FALSE
    /\ workerPc = "select"
    /\ resume = "select"
    /\ timer = "running"
    /\ lifecycle = "Running"
    /\ shutdownErr = "none"
    /\ deadlinePassed = FALSE
    /\ spanPc = [s \in SpanIds |-> "open"]
    /\ sends = <<>>
    /\ lastResult = "none"
    /\ accepted = <<>>
    /\ atDrain = <<>>
    /\ history = TRUE
    /\ samplingRate = 10
    /\ served = 0
    /\ req = <<>>
    /\ spans = <<>>
    /\ env = ""
    /\ logLevelEnv = ""
    /\ mainPc = "ready"
    /\ loggerLevel = 0
    /\ ctx = <<>>
    /\ logged = <<>>
    /\ ApiIdle
    /\ MetricsIdle

Worker ==
    \/ ReceiveSpan
    \/ TimerFlush
    \/ StopSignal
    \/ DrainReceive
    \/ DrainFinal

PipelineNext ==
    \/ \E s \in SpanIds : OnEnd(s)
    \/ \E s \in SpanIds : Enqueue(s)
    \/ Worker
    \/ TimerExpire
    \/ \E ok \in BOOLEAN : ExportReturn(ok)
    \/ ExportHang
    \/ ExportTimeout
    \/ Shutdown
    \/ ShutdownReturn
    \/ DeadlineElapse

PipelineSpec ==
    /\ PipelineInit
    /\ [][PipelineNext]_vars
    /\ WF_vars(ReceiveSpan)
    /\ WF_vars(TimerFlush)
    /\ WF_vars(TimerExpire)

(***************************************************************************)
(* The service: sampler, tracer and the order handler behind the otelhttp  *)
(* handler.  The model keeps the record of one request at a time, the one  *)
(* being served; the span pipeline runs beside it.                         *)
(***************************************************************************)
MaxRequests == 1

TraceIdSpace == 10

EnvValues == {"", "production", "development", "staging"}

(***************************************************************************)
(* Trace ids are drawn from both ends of the id space: the ratio sampler   *)
(* reads an id only through a comparison with its upper bound.             *)
(***************************************************************************)
TraceIdChoices == {1, TraceIdSpace}

SpanNames == <<"POST /orders", "CreateOrder", "CheckInventory",
               "ProcessPayment", "ReserveInventory">>

getEnv(value, defaultValue) == IF value # "" THEN value ELSE defaultValue

(***************************************************************************)
(* Mutant of newTracerProvider: the sampler is not wired to ENVIRONMENT.   *)
(***************************************************************************)
newTracerProviderAlwaysSample(e) == 10

(***************************************************************************)
(* newTracerProvider: the sampler fraction, in tenths.                     *)
(***************************************************************************)
newTracerProvider(e) ==
    IF getEnv(e, "development") = "production" THEN 1 ELSE 10

(***************************************************************************)
(* sdktrace.TraceIDRatioBased(fraction).ShouldSample: a fraction of 1 or   *)
(* more samples always; otherwise the id is compared with the fraction of  *)
(* the id space.  The parent's sampled flag is not read.                   *)
(***************************************************************************)
TraceIDRatioBased(rate, tid) ==
    IF rate >= 10 THEN TRUE
    ELSE IF rate <= 0 THEN FALSE
    ELSE (tid - 1) < (rate * TraceIdSpace) \div 10

StatusRank(c) == CASE c = "Unset" -> 0 [] c = "Error" -> 1 [] c = "Ok" -> 2

(***************************************************************************)
(* span.IsRecording: the span is sampled and has not ended.                *)
(***************************************************************************)
IsRecording(sp) == sp.sampled /\ sp.fate = "open"

(***************************************************************************)
(* A write the caller makes on a span after its End: the span ignores it;  *)
(* late counts such calls.                                                 *)
(***************************************************************************)
Late(sp) == IF sp.fate = "open" THEN sp ELSE [sp EXCEPT !.late = @ + 1]

(***************************************************************************)
(* span.SetStatus: a no-op on a span that is not recording; otherwise a    *)
(* status of lower rank than the present one is ignored.                   *)
(***************************************************************************)
SetStatus(sp, c) ==
    IF ~IsRecording(sp) \/ StatusRank(sp.status) > StatusRank(c)
    THEN Late(sp)
    ELSE [sp EXCEPT !.status = c]

(***************************************************************************)
(* span.RecordError: adds an exception event to a recording span; the      *)
(* status is left to SetStatus.                                            *)
(***************************************************************************)
RecordError(sp) ==
    IF IsRecording(sp) THEN [sp EXCEPT !.errors = @ + 1] ELSE Late(sp)

SpanId(r, i) == (r - 1) * Len(SpanNames) + i

(***************************************************************************)
(* tracer.Start: the trace id is the parent's when there is one, and the   *)
(* configured sampler is consulted for the new span, root or not.          *)
(***************************************************************************)
Start(name, tid) ==
    [name |-> name, trace |-> tid,
     sampled |-> TraceIDRatioBased(samplingRate, tid),
     status |-> "Unset", errors |-> 0, attrs |-> <<>>, fate |-> "open",
     ends |-> 0, late |-> 0]

(***************************************************************************)
(* span.SetAttributes: a no-op on a span that is not recording.            *)
(***************************************************************************)
SetAttributes(sp, kv) ==
    IF IsRecording(sp) THEN [sp EXCEPT !.attrs = @ \o kv] ELSE Late(sp)

(***************************************************************************)
(* span.End: a span that is not sampled is a non-recording span whose End  *)
(* does nothing; a sampled span goes to the processor's OnEnd and from     *)
(* there to enqueueDrop.                                                   *)
(***************************************************************************)
SpanEnd(sp, id) ==
    IF sp.sampled /\ ~stopped
    THEN EnqueueDrop(id)
    ELSE UNCHANGED <<queue, accepted, dropped>>

Ended(sp) ==
    [sp EXCEPT !.fate = IF queue' # queue THEN "enqueued"
                        ELSE IF dropped' # dropped THEN "dropped"
                        ELSE IF sp.sampled THEN "discarded"
                        ELSE "skipped",
               !.ends = @ + 1]

(***************************************************************************)
(* CreateOrderRequest values a body can decode to: the request of the      *)
(* success test, the four requests of the validation test (a field         *)
(* missing, quantity 0, amount -10), amount 0 and the empty object.        *)
(***************************************************************************)
NoOrder == [user_id |-> "", product_id |-> "", quantity |-> 0, amount |-> 0]

ValidOrder == [user_id |-> "test-user", product_id |-> "test-product",
               quantity |-> 2, amount |-> 99]

Requests ==
    {ValidOrder, NoOrder,
     [ValidOrder EXCEPT !.user_id = ""],
     [ValidOrder EXCEPT !.product_id = ""],
     [ValidOrder EXCEPT !.quantity = 0],
     [ValidOrder EXCEPT !.amount = 0 - 10],
     [ValidOrder EXCEPT !.amount = 0]}

(***************************************************************************)
(* Mutant of validateRequest: the bounds on quantity and amount let zero   *)
(* through.                                                                *)
(***************************************************************************)
validateRequestAllowsZero(r) ==
    IF r.user_id = "" THEN "user_id is required"
    ELSE IF r.product_id = "" THEN "product_id is required"
    ELSE IF r.quantity < 0 THEN "quantity must be positive"
    ELSE IF r.amount < 0 THEN "amount must be positive"
    ELSE "nil"

(***************************************************************************)
(* validateRequest: the error it returns, "nil" for none.                  *)
(***************************************************************************)
validateRequest(r) ==
    IF r.user_id = "" THEN "user_id is required"
    ELSE IF r.product_id = "" THEN "product_id is required"
    ELSE IF r.quantity <= 0 THEN "quantity must be positive"
    ELSE IF r.amount <= 0 THEN "amount must be positive"
    ELSE "nil"

Idle == [pc |-> "idle", remote |-> "none", body |-> "", order |-> NoOrder,
         inv |-> "", pay |-> "", code |-> 0, status |-> "", consults |-> 0,
         metrics |-> <<>>]

NoPipe == <<batch, stopped, workerPc, resume, timer, lifecycle, shutdownErr,
            deadlinePassed, spanPc, sends, lastResult, atDrain, history>>

(***************************************************************************)
(* The measurements the handler makes on the instruments of NewMetrics:    *)
(* instrument, attribute value and amount.  The elapsed time recorded on   *)
(* orders.duration is not modelled and stands as 0.                        *)
(***************************************************************************)
ErrorCounter(type) == [name |-> "errors.total", attr |-> type, value |-> 1]

InventoryRequests == [name |-> "inventory.requests", attr |-> "", value |-> 1]

OrderDuration == [name |-> "orders.duration", attr |-> "success", value |-> 0]

OrderCounter == [name |-> "orders.created", attr |-> "success", value |-> 1]

PaymentAmount(amount) ==
    [name |-> "payments.total_amount", attr |-> "", value |-> amount]

(***************************************************************************)
(* A request reaches the otelhttp handler of /orders: the propagator       *)
(* extracts the caller's trace context, if any, and the server span is     *)
(* started under it.                                                       *)
(***************************************************************************)
Middleware ==
    /\ req.pc \in {"idle", "done"}
    /\ served < MaxRequests
    /\ served' = served + 1
    /\ \E remote \in {"none", "sampled", "unsampled"}, tid \in TraceIdChoices :
         /\ req' = [Idle EXCEPT !.pc = "start", !.remote = remote,
                                !.consults = 1]
         /\ spans' = <<Start(SpanNames[1], tid)>>
    /\ UNCHANGED <<avars, mvars, pvars, samplingRate, cvars>>

(***************************************************************************)
(* CreateOrderHandler                                                      *)
(***************************************************************************)
(***************************************************************************)
(* Mutant of StartCreateOrder: span.End() is called at once instead of     *)
(* being deferred.                                                         *)
(***************************************************************************)
StartCreateOrderEndsAtOnce ==
    /\ req.pc = "start"
    /\ LET sp == Start(SpanNames[2], spans[1].trace)
       IN /\ SpanEnd(sp, SpanId(served, 2))
          /\ spans' = Append(spans, Ended(sp))
    /\ req' = [req EXCEPT !.pc = "decode", !.consults = @ + 1]
    /\ UNCHANGED <<avars, mvars, NoPipe, samplingRate, served, cvars>>

StartCreateOrder ==
    /\ req.pc = "start"
    /\ spans' = Append(spans, Start(SpanNames[2], spans[1].trace))
    /\ req' = [req EXCEPT !.pc = "decode", !.consults = @ + 1]
    /\ UNCHANGED <<avars, mvars, pvars, samplingRate, served, cvars>>

Decode ==
    /\ req.pc = "decode"
    /\ \E ok \in BOOLEAN :
         IF ok
         THEN /\ \E r \in Requests :
                   req' = [req EXCEPT !.pc = "validate", !.order = r]
              /\ spans' = spans
         ELSE /\ req' = [req EXCEPT
                           !.pc = "end", !.body = "malformed", !.code = 400,
                           !.metrics = Append(@, ErrorCounter("invalid_request"))]
              /\ spans' = [spans EXCEPT
                              ![2] = SetStatus(RecordError(@), "Error")]
    /\ UNCHANGED <<avars, mvars, pvars, samplingRate, served, cvars>>

(***************************************************************************)
(* Mutant of Validate: a request that fails validation is answered         *)
(* without a measurement on the error counter.                             *)
(***************************************************************************)
ValidateNoErrorCount ==
    /\ req.pc = "validate"
    /\ LET ok == validateRequest(req.order) = "nil" IN
         IF ok
         THEN /\ req' = [req EXCEPT !.pc = "inventory", !.body = "valid"]
              /\ spans' = [spans EXCEPT ![2] = SetAttributes(@,
                               <<<<"user.id", req.order.user_id>>,
                                 <<"product.id", req.order.product_id>>,
                                 <<"order.quantity", req.order.quantity>>,
                                 <<"order.amount", req.order.amount>>>>)]
         ELSE /\ req' = [req EXCEPT
                           !.pc = "end", !.body = "invalid", !.code = 400]
              /\ spans' = [spans EXCEPT
                              ![2] = SetStatus(RecordError(@), "Error")]
    /\ UNCHANGED <<avars, mvars, pvars, samplingRate, served, cvars>>

Validate ==
    /\ req.pc = "validate"
    /\ LET ok == validateRequest(req.order) = "nil" IN
         IF ok
         THEN /\ req' = [req EXCEPT !.pc = "inventory", !.body = "valid"]
              /\ spans' = [spans EXCEPT ![2] = SetAttributes(@,
                               <<<<"user.id", req.order.user_id>>,
                                 <<"product.id", req.order.product_id>>,
                                 <<"order.quantity", req.order.quantity>>,
                                 <<"order.amount", req.order.amount>>>>)]
         ELSE /\ req' = [req EXCEPT
                           !.pc = "end", !.body = "invalid", !.code = 400,
                           !.metrics = Append(@, ErrorCounter("validation_error"))]
              /\ spans' = [spans EXCEPT
                              ![2] = SetStatus(RecordError(@), "Error")]
    /\ UNCHANGED <<avars, mvars, pvars, samplingRate, served, cvars>>

(***************************************************************************)
(* processOrder: checkInventory, processPayment, reserveInventory.  Each   *)
(* starts a child span and ends it on return.                              *)
(***************************************************************************)
(***************************************************************************)
(* Mutant of checkInventory: processOrder drops the error of the           *)
(* inventory check and goes on to the payment.                             *)
(***************************************************************************)
checkInventoryErrorDropped ==
    /\ req.pc = "inventory"
    /\ \E ok \in BOOLEAN :
         LET sp0 == SetAttributes(Start(SpanNames[3], spans[1].trace),
                      <<<<"product.id", req.order.product_id>>,
                        <<"requested.quantity", req.order.quantity>>>>)
             sp1 == IF ok THEN sp0
                    ELSE SetStatus(RecordError(sp0), "Error")
         IN /\ SpanEnd(sp1, SpanId(served, Len(spans) + 1))
            /\ spans' = Append(spans, Ended(sp1))
            /\ req' = [req EXCEPT
                         !.pc = "payment",
                         !.inv = IF ok THEN "ok" ELSE "fail",
                         !.consults = @ + 1,
                         !.metrics = Append(@, InventoryRequests)]
    /\ UNCHANGED <<avars, mvars, NoPipe, samplingRate, served, cvars>>

checkInventory ==
    /\ req.pc = "inventory"
    /\ \E ok \in BOOLEAN :
         LET sp0 == SetAttributes(Start(SpanNames[3], spans[1].trace),
                      <<<<"product.id", req.order.product_id>>,
                        <<"requested.quantity", req.order.quantity>>>>)
             sp1 == IF ok THEN sp0
                    ELSE SetStatus(RecordError(sp0), "Error")
         IN /\ SpanEnd(sp1, SpanId(served, Len(spans) + 1))
            /\ spans' = Append(spans, Ended(sp1))
            /\ req' = [req EXCEPT
                         !.pc = IF ok THEN "payment" ELSE "failed",
                         !.inv = IF ok THEN "ok" ELSE "fail",
                         !.consults = @ + 1,
                         !.metrics = Append(@, InventoryRequests)]
    /\ UNCHANGED <<avars, mvars, NoPipe, samplingRate, served, cvars>>

processPayment ==
    /\ req.pc = "payment"
    /\ \E ok \in BOOLEAN :
         LET sp0 == SetAttributes(Start(SpanNames[4], spans[1].trace),
                      <<<<"user.id", req.order.user_id>>,
                        <<"payment.amount", req.order.amount>>>>)
             sp1 == IF ok THEN SetStatus(sp0, "Ok")
                    ELSE SetStatus(RecordError(sp0), "Error")
         IN /\ SpanEnd(sp1, SpanId(served, Len(spans) + 1))
            /\ spans' = Append(spans, Ended(sp1))
            /\ req' = [req EXCEPT
                         !.pc = IF ok THEN "reserve" ELSE "failed",
                         !.pay = IF ok THEN "ok" ELSE "fail",
                         !.consults = @ + 1]
    /\ UNCHANGED <<avars, mvars, NoPipe, samplingRate, served, cvars>>

(***************************************************************************)
(* Mutant of reserveInventory: the span is started but never ended (the    *)
(* deferred span.End() is missing).                                        *)
(***************************************************************************)
reserveInventoryNoEnd ==
    /\ req.pc = "reserve"
    /\ spans' = Append(spans, Start(SpanNames[5], spans[1].trace))
    /\ req' = [req EXCEPT !.pc = "respond", !.consults = @ + 1]
    /\ UNCHANGED <<avars, mvars, pvars, samplingRate, served, cvars>>

reserveInventory ==
    /\ req.pc = "reserve"
    /\ LET sp0 == SetAttributes(Start(SpanNames[5], spans[1].trace),
                      <<<<"product.id", req.order.product_id>>,
                        <<"quantity", req.order.quantity>>,
                        <<"db.operation", "UPDATE">>,
                        <<"db.table", "inventory">>>>)
       IN /\ SpanEnd(sp0, SpanId(served, Len(spans) + 1))
          /\ spans' = Append(spans, Ended(sp0))
    /\ req' = [req EXCEPT !.pc = "respond", !.consults = @ + 1]
    /\ UNCHANGED <<avars, mvars, NoPipe, samplingRate, served, cvars>>

(***************************************************************************)
(* CreateOrderHandler after processOrder: the error branch answers 500,    *)
(* the success branch records the order metrics and answers 201.           *)
(***************************************************************************)
(***************************************************************************)
(* Mutant of ProcessingFailed: the error branch does not return, and the   *)
(* handler goes on to the success branch.                                  *)
(***************************************************************************)
ProcessingFailedFallsThrough ==
    /\ req.pc = "failed"
    /\ req' = [req EXCEPT
                 !.pc = "respond", !.code = 500,
                 !.metrics = Append(@, ErrorCounter("processing_error"))]
    /\ spans' = [spans EXCEPT ![2] = SetStatus(RecordError(@), "Error")]
    /\ UNCHANGED <<avars, mvars, pvars, samplingRate, served, cvars>>

ProcessingFailed ==
    /\ req.pc = "failed"
    /\ req' = [req EXCEPT
                 !.pc = "end", !.code = 500,
                 !.metrics = Append(@, ErrorCounter("processing_error"))]
    /\ spans' = [spans EXCEPT ![2] = SetStatus(RecordError(@), "Error")]
    /\ UNCHANGED <<avars, mvars, pvars, samplingRate, served, cvars>>

(***************************************************************************)
(* Mutant of Respond: the body is written without WriteHeader, so the      *)
(* status code is the default 200.                                         *)
(***************************************************************************)
RespondDefaultStatus ==
    /\ req.pc = "respond"
    /\ req' = [req EXCEPT
                 !.pc = "end", !.code = 200, !.status = "success",
                 !.metrics = @ \o <<OrderDuration, OrderCounter,
                                    PaymentAmount(req.order.amount)>>]
    /\ spans' = [spans EXCEPT ![2] = SetStatus(@, "Ok")]
    /\ UNCHANGED <<avars, mvars, pvars, samplingRate, served, cvars>>

(***************************************************************************)
(* Mutant of Respond: the order is reported as created only when its       *)
(* CreateOrder span is recorded.                                           *)
(***************************************************************************)
RespondRequiresRecordedSpan ==
    /\ req.pc = "respond"
    /\ req' = IF spans[2].sampled
              THEN [req EXCEPT
                      !.pc = "end", !.code = 201, !.status = "success",
                      !.metrics = @ \o <<OrderDuration, OrderCounter,
                                         PaymentAmount(req.order.amount)>>]
              ELSE [req EXCEPT !.pc = "end", !.code = 500]
    /\ spans' = [spans EXCEPT ![2] = SetStatus(@, "Ok")]
    /\ UNCHANGED <<avars, mvars, pvars, samplingRate, served, cvars>>

Respond ==
    /\ req.pc = "respond"
    /\ req' = [req EXCEPT
                 !.pc = "end", !.code = 201, !.status = "success",
                 !.metrics = @ \o <<OrderDuration, OrderCounter,
                                    PaymentAmount(req.order.amount)>>]
    /\ spans' = [spans EXCEPT ![2] = SetStatus(@, "Ok")]
    /\ UNCHANGED <<avars, mvars, pvars, samplingRate, served, cvars>>

(***************************************************************************)
(* The deferred span.End() of the CreateOrder span, then the end of the    *)
(* server span when the otelhttp handler returns.                          *)
(***************************************************************************)
EndCreateOrder ==
    /\ req.pc = "end"
    /\ SpanEnd(spans[2], SpanId(served, 2))
    /\ spans' = [spans EXCEPT ![2] = Ended(@)]
    /\ req' = [req EXCEPT !.pc = "mwEnd"]
    /\ UNCHANGED <<avars, mvars, NoPipe, samplingRate, served, cvars>>

MiddlewareEnd ==
    /\ req.pc = "mwEnd"
    /\ LET sp == IF req.code >= 500
                 THEN SetStatus(spans[1], "Error")
                 ELSE spans[1]
       IN /\ SpanEnd(sp, SpanId(served, 1))
          /\ spans' = [spans EXCEPT ![1] = Ended(sp)]
    /\ req' = [req EXCEPT !.pc = "done"]
    /\ UNCHANGED <<avars, mvars, NoPipe, samplingRate, served, cvars>>

Handler ==
    \/ Middleware
    \/ StartCreateOrder
    \/ Decode
    \/ Validate
    \/ checkInventory
    \/ processPayment
    \/ reserveInventory
    \/ ProcessingFailed
    \/ Respond
    \/ EndCreateOrder
    \/ MiddlewareEnd

(***************************************************************************)
(* The serving process after a successful start-up: the sampler fraction   *)
(* is one of those newTracerProvider can configure.                        *)
(***************************************************************************)
Init ==
    /\ queue = <<>>
    /\ batch = <<>>
    /\ dropped = 0
    /\ stopped = FALSE
    /\ workerPc = "select"
    /\ resume = "select"
    /\ timer = "running"
    /\ lifecycle = "Running"
    /\ shutdownErr = "none"
    /\ deadlinePassed = FALSE
    /\ spanPc = <<>>
    /\ sends = <<>>
    /\ lastResult = "none"
    /\ accepted = <<>>
    /\ atDrain = <<>>
    /\ history = FALSE
    /\ samplingRate \in {newTracerProvider(e) : e \in EnvValues}
    /\ served = 0
    /\ req = Idle
    /\ spans = <<>>
    /\ env = ""
    /\ logLevelEnv = ""
    /\ mainPc = "ready"
    /\ loggerLevel = 0
    /\ ctx = <<>>
    /\ logged = <<>>
    /\ ApiIdle
    /\ MetricsIdle

Next ==
    \/ Handler
    \/ ReceiveSpan
    \/ TimerExpire
    \/ TimerFlush
    \/ \E ok \in BOOLEAN : ExportReturn(ok)
    \/ ExportHang
    \/ ExportTimeout

Spec == Init /\ [][Next]_vars

(***************************************************************************)
(* Start-up configuration and trace-correlated logging.                    *)
(***************************************************************************)
LogLevelValues == {"", "debug", "info"}

LevelDebug == 0 - 4

LevelInfo == 0

LevelWarn == 4

LevelError == 8

(***************************************************************************)
(* The span context of a context that holds no span: all zero.             *)
(***************************************************************************)
Background == [trace |-> 0, span |-> 0, sampled |-> FALSE]

IsValid(sc) == sc.trace # 0 /\ sc.span # 0

(***************************************************************************)
(* NewLogger: the level is Debug when LOG_LEVEL is "debug", Info otherwise *)
(***************************************************************************)
NewLoggerLevel(v) == IF v = "debug" THEN LevelDebug ELSE LevelInfo

(***************************************************************************)
(* Mutant of LogWithTrace: the ids are appended for a sampled span only.   *)
(***************************************************************************)
LogWithTraceSampledOnly(c, level, args) ==
    [level |-> level,
     fields |-> IF IsValid(c) /\ c.sampled
                THEN args \o <<<<"trace_id", c.trace>>, <<"span_id", c.span>>>>
                ELSE args]

(***************************************************************************)
(* LogWithTrace: the record handed to logger.Log; the trace and span ids   *)
(* are appended when the span context of ctx is valid.                     *)
(***************************************************************************)
LogWithTrace(c, level, args) ==
    [level |-> level,
     fields |-> IF IsValid(c)
                THEN args \o <<<<"trace_id", c.trace>>, <<"span_id", c.span>>>>
                ELSE args]

InfoWithTrace(c, args) == LogWithTrace(c, LevelInfo, args)

ErrorWithTrace(c, args) == LogWithTrace(c, LevelError, args)

WarnWithTrace(c, args) == LogWithTrace(c, LevelWarn, args)

DebugWithTrace(c, args) == LogWithTrace(c, LevelDebug, args)

(***************************************************************************)
(* logger.Log: a record below the logger's level is not emitted.           *)
(***************************************************************************)
Emitted(rec) == rec.level >= loggerLevel

NoLog == [ctx |-> Background, args |-> <<>>, level |-> LevelInfo,
          emitted |-> FALSE, fields |-> <<>>]

CallerArgs == {<<>>, <<<<"error", "e">>>>, <<<<"user_id", "u">>, <<"amount", 1>>>>}

BootObservability ==
    /\ mainPc = "boot"
    /\ samplingRate' = newTracerProvider(env)
    /\ mainPc' = "logger"
    /\ UNCHANGED <<avars, mvars, pvars, served, req, spans, env, logLevelEnv, loggerLevel,
                   ctx, logged>>

BootObservabilityFails ==
    /\ mainPc = "boot"
    /\ mainPc' = "fatal"
    /\ UNCHANGED <<avars, mvars, pvars, svars, env, logLevelEnv, loggerLevel, ctx, logged>>

NewLogger ==
    /\ mainPc = "logger"
    /\ loggerLevel' = NewLoggerLevel(logLevelEnv)
    /\ mainPc' = "ready"
    /\ UNCHANGED <<avars, mvars, pvars, svars, env, logLevelEnv, ctx, logged>>

(***************************************************************************)
(* A caller starts a span (under no parent or under the trace of a remote  *)
(* parent) and holds the context tracer.Start returns, or holds a context  *)
(* without a span.                                                         *)
(***************************************************************************)
StartSpan ==
    /\ mainPc = "ready"
    /\ \E tid \in TraceIdChoices, sid \in {1, 2} :
         ctx' = [trace |-> tid, span |-> sid,
                 sampled |-> Start(SpanNames[2], tid).sampled]
    /\ UNCHANGED <<avars, mvars, pvars, svars, env, logLevelEnv, mainPc, loggerLevel, logged>>

DropSpan ==
    /\ mainPc = "ready"
    /\ ctx # Background
    /\ ctx' = Background
    /\ UNCHANGED <<avars, mvars, pvars, svars, env, logLevelEnv, mainPc, loggerLevel, logged>>

LogCall ==
    /\ mainPc = "ready"
    /\ \E args \in CallerArgs :
         \E rec \in {InfoWithTrace(ctx, args), ErrorWithTrace(ctx, args),
                     WarnWithTrace(ctx, args), DebugWithTrace(ctx, args)} :
           logged' = [ctx |-> ctx, args |-> args, level |-> rec.level,
                      emitted |-> Emitted(rec), fields |-> rec.fields]
    /\ UNCHANGED <<avars, mvars, pvars, svars, env, logLevelEnv, mainPc, loggerLevel, ctx>>

ConfigInit ==
    /\ queue = <<>>
    /\ batch = <<>>
    /\ dropped = 0
    /\ stopped = FALSE
    /\ workerPc = "select"
    /\ resume = "select"
    /\ timer = "running"
    /\ lifecycle = "Running"
    /\ shutdownErr = "none"
    /\ deadlinePassed = FALSE
    /\ spanPc = <<>>
    /\ sends = <<>>
    /\ lastResult = "none"
    /\ accepted = <<>>
    /\ atDrain = <<>>
    /\ history = FALSE
    /\ samplingRate = 0
    /\ served = 0
    /\ req = Idle
    /\ spans = <<>>
    /\ env \in EnvValues
    /\ logLevelEnv \in LogLevelValues
    /\ mainPc = "boot"
    /\ loggerLevel = LevelInfo
    /\ ctx = Background
    /\ logged = NoLog
    /\ ApiIdle
    /\ MetricsIdle

ConfigNext ==
    \/ BootObservability
    \/ BootObservabilityFails
    \/ NewLogger
    \/ StartSpan
    \/ DropSpan
    \/ LogCall

ConfigSpec == ConfigInit /\ [][ConfigNext]_vars

(***************************************************************************)
(* Metrics: the counters of NewMetrics, measured by the handler            *)
(* goroutines and collected by the periodic reader of newMeterProvider.    *)
(* Counter.Add locks the sum aggregate of the instrument, adds to the      *)
(* entry of the attribute set and unlocks; the reader collects each        *)
(* aggregate under the same lock.  The exporter is built without a         *)
(* temporality selector, so the sums are cumulative: collection reads      *)
(* them and leaves them as they are.                                       *)
(***************************************************************************)
NoPoint == 0 - 1

(***************************************************************************)
(* Mutant of AcquireLock: the aggregate is read without taking its lock.   *)
(***************************************************************************)
AcquireLockNoMutex(p, k) ==
    /\ pcM[p] = "idle"
    /\ tmp[p].calls < MaxAdds
    /\ mutex' = [mutex EXCEPT ![k] = p]
    /\ tmp' = [tmp EXCEPT ![p] = [key |-> k, val |-> sum[k], calls |-> @.calls + 1]]
    /\ pcM' = [pcM EXCEPT ![p] = "locked"]
    /\ UNCHANGED <<pvars, svars, cvars, avars, sum, added, exports>>

(***************************************************************************)
(* Counter.Add(ctx, 1, attrs), first half: take the lock of the aggregate  *)
(* and read the sum of the attribute set.                                  *)
(***************************************************************************)
AcquireLock(p, k) ==
    /\ pcM[p] = "idle"
    /\ tmp[p].calls < MaxAdds
    /\ mutex[k] = 0
    /\ mutex' = [mutex EXCEPT ![k] = p]
    /\ tmp' = [tmp EXCEPT ![p] = [key |-> k, val |-> sum[k], calls |-> @.calls + 1]]
    /\ pcM' = [pcM EXCEPT ![p] = "locked"]
    /\ UNCHANGED <<pvars, svars, cvars, avars, sum, added, exports>>

(***************************************************************************)
(* Counter.Add, second half: store the sum plus one, unlock, return.       *)
(***************************************************************************)
AddReturn(p) ==
    /\ pcM[p] = "locked"
    /\ sum' = [sum EXCEPT ![tmp[p].key] = tmp[p].val + 1]
    /\ added' = [added EXCEPT ![tmp[p].key] = @ + 1]
    /\ mutex' = [mutex EXCEPT ![tmp[p].key] = 0]
    /\ pcM' = [pcM EXCEPT ![p] = "idle"]
    /\ UNCHANGED <<pvars, svars, cvars, avars, tmp, exports>>

Collecting == Len(exports) > 0 /\ exports[Len(exports)].open

(***************************************************************************)
(* The 10 s ticker of the periodic reader fires: a collection starts.      *)
(***************************************************************************)
Tick ==
    /\ ~Collecting
    /\ Len(exports) < MaxTicks
    /\ exports' = Append(exports, [open |-> TRUE,
                                   points |-> [k \in Keys |-> NoPoint],
                                   seen |-> [k \in Keys |-> NoPoint]])
    /\ UNCHANGED <<pvars, svars, cvars, avars, mutex, sum, tmp, pcM, added>>

(***************************************************************************)
(* Mutant of CollectKey: the sum is reset when it is collected, as with    *)
(* delta temporality.                                                      *)
(***************************************************************************)
CollectKeyResets(k) ==
    /\ Collecting
    /\ exports[Len(exports)].points[k] = NoPoint
    /\ mutex[k] = 0
    /\ exports' = [exports EXCEPT ![Len(exports)] =
                     [@ EXCEPT !.points[k] = sum[k], !.seen[k] = added[k]]]
    /\ sum' = [sum EXCEPT ![k] = 0]
    /\ UNCHANGED <<pvars, svars, cvars, avars, mutex, tmp, pcM, added>>

(***************************************************************************)
(* The collection reads one aggregate under its lock; `seen` notes how     *)
(* many Add calls had returned at that moment.                             *)
(***************************************************************************)
CollectKey(k) ==
    /\ Collecting
    /\ exports[Len(exports)].points[k] = NoPoint
    /\ mutex[k] = 0
    /\ exports' = [exports EXCEPT ![Len(exports)] =
                     [@ EXCEPT !.points[k] = sum[k], !.seen[k] = added[k]]]
    /\ UNCHANGED <<pvars, svars, cvars, avars, mutex, sum, tmp, pcM, added>>

(***************************************************************************)
(* The collected ResourceMetrics is handed to the exporter in one call.    *)
(***************************************************************************)
ExportMetrics ==
    /\ Collecting
    /\ \A k \in Keys : exports[Len(exports)].points[k] # NoPoint
    /\ exports' = [exports EXCEPT ![Len(exports)].open = FALSE]
    /\ UNCHANGED <<pvars, svars, cvars, avars, mutex, sum, tmp, pcM, added>>

MetricsInit ==
    /\ queue = <<>>
    /\ batch = <<>>
    /\ dropped = 0
    /\ stopped = FALSE
    /\ workerPc = "select"
    /\ resume = "select"
    /\ timer = "running"
    /\ lifecycle = "Running"
    /\ shutdownErr = "none"
    /\ deadlinePassed = FALSE
    /\ spanPc = <<>>
    /\ sends = <<>>
    /\ lastResult = "none"
    /\ accepted = <<>>
    /\ atDrain = <<>>
    /\ history = FALSE
    /\ samplingRate = 10
    /\ served = 0
    /\ req = Idle
    /\ spans = <<>>
    /\ env = ""
    /\ logLevelEnv = ""
    /\ mainPc = "ready"
    /\ loggerLevel = LevelInfo
    /\ ctx = Background
    /\ logged = NoLog
    /\ ApiIdle
    /\ MetricsIdle

MetricsNext ==
    \/ \E p \in Producers, k \in Keys : AcquireLock(p, k)
    \/ \E p \in Producers : AddReturn(p)
    \/ Tick
    \/ \E k \in Keys : CollectKey(k)
    \/ ExportMetrics

MetricsSpec == MetricsInit /\ [][MetricsNext]_vars

(***************************************************************************)
(* Calls of the span and shutdown API beyond the ones main and the         *)
(* handler make: End on a span that has ended, and a second call of the    *)
(* function InitObservability returns.                                     *)
(***************************************************************************)
ErrTracerShutdown == "failed to shutdown tracer provider"

ErrReaderShutdown == "failed to shutdown meter provider: reader is shutdown"

(***************************************************************************)
(* span.End() on a span that has ended: End has no result, the span is     *)
(* not recording any more and the call returns before the processors are   *)
(* reached.                                                                *)
(***************************************************************************)
EndAgain(s) ==
    /\ spanPc[s] = "ended"
    /\ reEnded = 0
    /\ reEnded' = s
    /\ UNCHANGED <<first, second, reported, decided, globals, readerShut, workers,
                   mvars, pvars, svars, cvars>>

(***************************************************************************)
(* meterProvider.Shutdown: the periodic reader shuts down under its        *)
(* shutdownOnce, and every call after the one that fired it gets the       *)
(* reader's "reader is shutdown" error.                                    *)
(***************************************************************************)
MeterProviderShutdown ==
    IF readerShut THEN ErrReaderShutdown ELSE "nil"

(***************************************************************************)
(* The first call of the shutdown function, after tracerProvider.Shutdown  *)
(* has returned: an error ends the call, otherwise the meter provider is   *)
(* shut down.                                                              *)
(***************************************************************************)
FirstShutdownMeter ==
    /\ lifecycle = "Stopped"
    /\ first = "none"
    /\ IF shutdownErr # "nil"
       THEN /\ first' = ErrTracerShutdown
            /\ UNCHANGED <<readerShut, workers>>
       ELSE /\ first' = MeterProviderShutdown
            /\ readerShut' = TRUE
            /\ workers' = workers \ {"metric"}
    /\ UNCHANGED <<reEnded, second, reported, decided, globals, mvars, pvars,
                   svars, cvars>>

(***************************************************************************)
(* A second call of the shutdown function, made once the first has         *)
(* entered tracerProvider.Shutdown: the provider is marked shut down and   *)
(* the call gets nil at once, whether or not the drain has finished.       *)
(***************************************************************************)
SecondShutdownTracer ==
    /\ lifecycle # "Running"
    /\ second = "none"
    /\ second' = "meter"
    /\ UNCHANGED <<reEnded, first, reported, decided, globals, readerShut, workers,
                   mvars, pvars, svars, cvars>>

SecondShutdownMeter ==
    /\ second = "meter"
    /\ second' = MeterProviderShutdown
    /\ readerShut' = TRUE
    /\ workers' = workers \ {"metric"}
    /\ UNCHANGED <<reEnded, first, reported, decided, globals, mvars, pvars,
                   svars, cvars>>

ApiNext ==
    \/ \E s \in SpanIds : OnEnd(s)
    \/ \E s \in SpanIds : Enqueue(s)
    \/ \E s \in SpanIds : EndAgain(s)
    \/ Worker
    \/ TimerExpire
    \/ \E ok \in BOOLEAN : ExportReturn(ok)
    \/ Shutdown
    \/ ShutdownReturn
    \/ FirstShutdownMeter
    \/ SecondShutdownTracer
    \/ SecondShutdownMeter

ApiSpec == PipelineInit /\ [][ApiNext]_vars

(***************************************************************************)
(* The shutdown function called with a context that can end (a deadline    *)
(* or a cancel), unlike main's: tracerProvider.Shutdown waits for the      *)
(* worker or for ctx.Done(), and returns the context's error when the      *)
(* context ends first.  The worker goes on draining on its own.            *)
(***************************************************************************)
ShutdownCtxDone ==
    /\ lifecycle = "Draining"
    /\ lifecycle' = "Stopped"
    /\ shutdownErr' = "deadline"
    /\ deadlinePassed' = TRUE
    /\ UNCHANGED <<avars, mvars, queue, batch, dropped, stopped, workerPc, resume,
                   timer, spanPc, sends, lastResult, accepted, atDrain, history,
                   svars, cvars>>

ShutdownNext ==
    \/ \E s \in SpanIds : OnEnd(s)
    \/ \E s \in SpanIds : Enqueue(s)
    \/ Worker
    \/ TimerExpire
    \/ \E ok \in BOOLEAN : ExportReturn(ok)
    \/ Shutdown
    \/ ShutdownReturn
    \/ ShutdownCtxDone
    \/ FirstShutdownMeter

ShutdownSpec == PipelineInit /\ [][ShutdownNext]_vars

(***************************************************************************)
(* The life of the process: main calls InitObservability, serves until a   *)
(* signal, shuts the HTTP server down and returns, which runs the          *)
(* deferred shutdown function.  lifecycle is "Stopped" before              *)
(* InitObservability and after the process is gone, "Starting" inside      *)
(* InitObservability, "Running" once it has returned the shutdown          *)
(* function, "Draining" inside tracerProvider.Shutdown.                    *)
(***************************************************************************)
qvars == <<queue, batch, dropped, stopped, workerPc, resume, timer, shutdownErr,
           deadlinePassed, spanPc, sends, lastResult, accepted, atDrain, history>>

mainUnchanged == <<reEnded, first, second, reported, decided, readerShut, mvars, qvars,
                   svars, env, logLevelEnv, loggerLevel, ctx, logged>>

InitObservabilityEnter ==
    /\ mainPc = "start"
    /\ lifecycle' = "Starting"
    /\ mainPc' = "tracer"
    /\ UNCHANGED <<workers, globals, mainUnchanged>>

(***************************************************************************)
(* log.Fatalf: the process exits at once with status 1; deferred calls     *)
(* do not run and every goroutine ends with the process.                   *)
(***************************************************************************)
Fatalf ==
    /\ lifecycle' = "Stopped"
    /\ mainPc' = "exited"
    /\ workers' = {}
    /\ globals' = {}
    /\ UNCHANGED mainUnchanged

(***************************************************************************)
(* InitObservability returns an error to main; what it has started and     *)
(* installed so far stays as it is.                                        *)
(***************************************************************************)
InitObservabilityFails ==
    /\ mainPc' = "initFailed"
    /\ UNCHANGED <<lifecycle, workers, globals, mainUnchanged>>

(***************************************************************************)
(* newTracerProvider: the batch span processor starts its worker and the   *)
(* provider is installed as the global one; an error of the exporter's     *)
(* constructor is returned before either.                                  *)
(***************************************************************************)
NewTracerProvider ==
    /\ mainPc = "tracer"
    /\ \/ /\ workers' = workers \cup {"span"}
          /\ globals' = globals \cup {"tracer"}
          /\ mainPc' = "meter"
          /\ UNCHANGED <<lifecycle, mainUnchanged>>
       \/ InitObservabilityFails

(***************************************************************************)
(* newMeterProvider: the periodic reader starts its worker and timer, the  *)
(* meter provider and the propagator are installed, and InitObservability  *)
(* returns the shutdown function; an error of the exporter's constructor   *)
(* is returned with the tracer provider already built and installed.       *)
(***************************************************************************)
NewMeterProvider ==
    /\ mainPc = "meter"
    /\ \/ /\ workers' = workers \cup {"metric"}
          /\ globals' = globals \cup {"meter", "propagator"}
          /\ lifecycle' = "Running"
          /\ mainPc' = "serving"
          /\ UNCHANGED mainUnchanged
       \/ InitObservabilityFails

(***************************************************************************)
(* main, on an error of InitObservability: log.Fatalf.                     *)
(***************************************************************************)
InitFailedFatalf ==
    /\ mainPc = "initFailed"
    /\ Fatalf

(***************************************************************************)
(* The server goroutine: ListenAndServe returns an error other than        *)
(* ErrServerClosed (the port is taken, or the listener fails while         *)
(* serving) and the goroutine calls log.Fatalf.                            *)
(***************************************************************************)
ListenAndServeFails ==
    /\ mainPc = "serving"
    /\ Fatalf

(***************************************************************************)
(* SIGINT or SIGTERM arrives and main calls server.Shutdown with the 30 s  *)
(* context.                                                                *)
(***************************************************************************)
Signal ==
    /\ mainPc = "serving"
    /\ mainPc' = "httpShutdown"
    /\ UNCHANGED <<lifecycle, workers, globals, mainUnchanged>>

(***************************************************************************)
(* server.Shutdown returns: nil when the connections have gone idle in     *)
(* time, and main returns, running the deferred shutdown(ctx); the         *)
(* context's error when they have not, and main calls log.Fatalf.          *)
(***************************************************************************)
ServerShutdown ==
    /\ mainPc = "httpShutdown"
    /\ \/ /\ mainPc' = "deferred"
          /\ UNCHANGED <<lifecycle, workers, globals, mainUnchanged>>
       \/ Fatalf

DeferredShutdown ==
    /\ mainPc = "deferred"
    /\ Shutdown

(***************************************************************************)
(* The deferred shutdown function has returned and the process exits.      *)
(***************************************************************************)
MainReturn ==
    /\ mainPc = "deferred"
    /\ first # "none"
    /\ mainPc' = "exited"
    /\ workers' = {}
    /\ globals' = {}
    /\ UNCHANGED <<lifecycle, mainUnchanged>>

(***************************************************************************)
(* Spans end while the server is up, and the worker of the span pipeline   *)
(* runs from newTracerProvider to the end of the process.                  *)
(***************************************************************************)
SpanTraffic ==
    /\ mainPc \in {"serving", "httpShutdown", "deferred"}
    /\ \/ \E s \in SpanIds : OnEnd(s)
       \/ \E s \in SpanIds : Enqueue(s)

SpanWorker ==
    /\ "span" \in workers
    /\ \/ Worker
       \/ TimerExpire
       \/ \E ok \in BOOLEAN : ExportReturn(ok)

MainInit ==
    /\ queue = <<>>
    /\ batch = <<>>
    /\ dropped = 0
    /\ stopped = FALSE
    /\ workerPc = "select"
    /\ resume = "select"
    /\ timer = "running"
    /\ lifecycle = "Stopped"
    /\ shutdownErr = "none"
    /\ deadlinePassed = FALSE
    /\ spanPc = [s \in SpanIds |-> "open"]
    /\ sends = <<>>
    /\ lastResult = "none"
    /\ accepted = <<>>
    /\ atDrain = <<>>
    /\ history = TRUE
    /\ samplingRate = 10
    /\ served = 0
    /\ req = <<>>
    /\ spans = <<>>
    /\ env = ""
    /\ logLevelEnv = ""
    /\ mainPc = "start"
    /\ loggerLevel = 0
    /\ ctx = <<>>
    /\ logged = <<>>
    /\ reEnded = 0
    /\ first = "none"
    /\ second = "none"
    /\ reported = {}
    /\ decided = <<>>
    /\ globals = {}
    /\ readerShut = FALSE
    /\ workers = {}
    /\ MetricsIdle

MainNext ==
    \/ InitObservabilityEnter
    \/ NewTracerProvider
    \/ NewMeterProvider
    \/ InitFailedFatalf
    \/ ListenAndServeFails
    \/ Signal
    \/ ServerShutdown
    \/ DeferredShutdown
    \/ ShutdownReturn
    \/ FirstShutdownMeter
    \/ MainReturn
    \/ SpanTraffic
    \/ SpanWorker

MainSpec == MainInit /\ [][MainNext]_vars

(***************************************************************************)
(* The sampler on its own: processes started under any ENVIRONMENT decide  *)
(* on trace ids, in any order; each decision is kept.                      *)
(***************************************************************************)
MaxDecisions == 3

(***************************************************************************)
(* Mutant of ShouldSample: a sampler that admits a share of its calls,     *)
(* counting them, instead of a share of the trace ids.                     *)
(***************************************************************************)
ShouldSampleByCallCount(e, tid) ==
    newTracerProvider(e) >= 10 \/ Len(decided) % 2 = 0

(***************************************************************************)
(* The decision of the sampler newTracerProvider configures in a process   *)
(* whose ENVIRONMENT is e.                                                 *)
(***************************************************************************)
ShouldSample(e, tid) == TraceIDRatioBased(newTracerProvider(e), tid)

Decide ==
    /\ Len(decided) < MaxDecisions
    /\ \E e \in EnvValues, tid \in TraceIdChoices :
         decided' = Append(decided, [env |-> e, trace |-> tid,
                                     sampled |-> ShouldSample(e, tid)])
    /\ UNCHANGED <<reEnded, first, second, reported, globals, readerShut, workers,
                   mvars, pvars, svars, cvars>>

SamplerNext == Decide

SamplerSpec == PipelineInit /\ [][SamplerNext]_vars

(***************************************************************************)
(* Properties of the span pipeline, checked under PipelineSpec.            *)
(***************************************************************************)
Sent == UNION {Range(sends[i].items) : i \in 1..Len(sends)}

(* C1: the channel never holds more than MaxQueueSize spans; an enqueue    *)
(* that finds it full leaves it as it is and adds exactly one to the drop  *)
(* counter; and a producer inside OnEnd can always take that step,         *)
(* whatever the channel holds and whatever the worker is doing.            *)
C1_DropOnFullNeverBlocks ==
    /\ [](Len(queue) <= MaxQueueSize)
    /\ [](\A s \in SpanIds : spanPc[s] = "enqueue" => ENABLED Enqueue(s))
    /\ [][\A s \in SpanIds :
            (spanPc[s] = "enqueue" /\ spanPc'[s] = "ended"
               /\ Len(queue) = MaxQueueSize)
            => (queue' = queue /\ dropped' = dropped + 1)]_vars

C1_Witness ==
    /\ Len(queue) = MaxQueueSize
    /\ dropped = 1
    /\ queue = accepted
    /\ \E s \in SpanIds : spanPc[s] = "ended" /\ s \notin Range(accepted)

NoTimerSend == \A i \in 1..Len(sends) : sends[i].cause # "timer"

(* C2: no ExportSpans call carries an empty batch or more than             *)
(* MaxExportBatchSize spans; and when exactly MaxExportBatchSize spans     *)
(* have been enqueued into the pipeline, none dropped, no timer flush and  *)
(* no shutdown, there is at most one call, and once the worker has taken   *)
(* them all from the channel exactly one, carrying exactly those spans.    *)
C2_FullBatchOneSend ==
    /\ \A i \in 1..Len(sends) :
         Len(sends[i].items) >= 1 /\ Len(sends[i].items) <= MaxExportBatchSize
    /\ (Len(accepted) = MaxExportBatchSize /\ dropped = 0 /\ ~stopped
          /\ NoTimerSend)
       => /\ Len(sends) <= 1
          /\ Len(queue) = 0
             => sends = <<[items |-> accepted, cause |-> "size"]>>

C2_Witness ==
    /\ Len(accepted) = MaxExportBatchSize
    /\ dropped = 0
    /\ ~stopped
    /\ timer = "running"
    /\ sends = <<[items |-> accepted, cause |-> "size"]>>
    /\ workerPc = "select"

OneSpanOnly == Len(accepted) = 1 /\ dropped = 0 /\ ~stopped

(* C3: with a single span enqueued and no shutdown, the only ExportSpans   *)
(* call there can be is one made on the timer and carrying that span; it   *)
(* has been made once the span has left the channel and the batch; and     *)
(* the span is eventually exported unless more spans or a shutdown come.   *)
C3_SingleSpanTimerFlush ==
    /\ [](OneSpanOnly
          => /\ sends \in {<<>>, <<[items |-> accepted, cause |-> "timer"]>>}
             /\ (Len(queue) = 0 /\ Len(batch) = 0) => Len(sends) = 1)
    /\ (OneSpanOnly ~> (Len(sends) >= 1 \/ ~OneSpanOnly))

C3_Witness ==
    /\ OneSpanOnly
    /\ sends = <<[items |-> accepted, cause |-> "timer"]>>
    /\ Len(batch) = 0
    /\ workerPc = "select"

(* C4: Shutdown moves Running to Draining and nothing else leaves          *)
(* Running; when the state is Stopped every span the channel had accepted  *)
(* before Shutdown was called has been passed to ExportSpans; and an End   *)
(* that starts after Shutdown was called adds nothing to the channel.      *)
C4_DrainOnShutdown ==
    /\ [](lifecycle = "Stopped" => Range(atDrain) \subseteq Sent)
    /\ [](lifecycle # "Running" => stopped)
    /\ [][lifecycle = "Running" /\ lifecycle' # "Running"
            => lifecycle' = "Draining"]_vars
    /\ [][\A s \in SpanIds :
            (spanPc[s] = "open" /\ spanPc'[s] # "open"
               /\ lifecycle # "Running")
            => (spanPc'[s] = "ended" /\ queue' = queue
                  /\ accepted' = accepted)]_vars

C4_Witness ==
    /\ lifecycle = "Stopped"
    /\ Len(atDrain) >= 1
    /\ \E i \in 1..Len(sends) : sends[i].cause = "drain"
    /\ \E s \in SpanIds :
         spanPc[s] = "ended" /\ s \notin Range(accepted) /\ dropped = 0

(* C5: the telemetry shutdown returns by its deadline: when the exporter   *)
(* has not answered the export in flight and the deadline has elapsed,     *)
(* shutdown has returned, reporting that the flush did not complete.       *)
C5_ShutdownReturnsByDeadline ==
    (workerPc = "hung" /\ deadlinePassed)
    => (lifecycle = "Stopped" /\ shutdownErr = "deadline")

(***************************************************************************)
(* Properties of the service, checked under Spec.                          *)
(***************************************************************************)
RootSampled ==
    IF req.remote = "none" THEN spans[1].sampled ELSE req.remote = "sampled"

(* C6: the sampling decision is made once, at the trace root, and          *)
(* inherited: every span of the request carries the sampled value of the   *)
(* root of its trace (the caller's flag when the trace came from           *)
(* upstream), and the sampler is consulted for a root span only.           *)
C6_SampledInheritedFromRoot ==
    /\ \A i \in 1..Len(spans) : spans[i].sampled = RootSampled
    /\ req.consults <= (IF req.remote = "none" THEN 1 ELSE 0)

(* C7: an ended span was placed on the export queue, or counted as a       *)
(* capacity drop, if and only if its trace was sampled.                    *)
C7_EnqueuedIffTraceSampled ==
    \A i \in 1..Len(spans) :
      spans[i].fate # "open"
      => (spans[i].fate \in {"enqueued", "dropped"} <=> RootSampled)

ExpectedCode(r) ==
    CASE r.body \in {"malformed", "invalid"} -> 400
      [] r.inv = "fail" \/ r.pay = "fail" -> 500
      [] OTHER -> 201

(* C10: the response of CreateOrderHandler is decided by the request and   *)
(* the inventory and payment outcomes alone, whatever the sampling         *)
(* decision, the state of the span channel and the state of the exporter;  *)
(* and a handler under way can always take its next step.                  *)
C10_ResponseIndependentOfTelemetry ==
    /\ req.pc \in {"end", "mwEnd", "done"}
       => /\ req.code = ExpectedCode(req)
          /\ req.status = (IF req.code = 201 THEN "success" ELSE "")
    /\ req.pc \notin {"idle", "done"} => ENABLED Handler

C10_Witness ==
    /\ req.pc = "done"
    /\ req.code = 201
    /\ workerPc = "hung"
    /\ Len(queue) = MaxQueueSize
    /\ dropped >= 1

(***************************************************************************)
(* Properties of configuration and logging, checked under ConfigSpec.      *)
(***************************************************************************)
HasTraceFields(fields) ==
    \E i \in 1..Len(fields) : fields[i][1] \in {"trace_id", "span_id"}

ClaimedRate(e) == IF e = "production" THEN 1 ELSE 10

(* C9: once the tracer provider is built, the sampler fraction is 0.1 when *)
(* ENVIRONMENT is "production" and 1.0 when it is "development" or unset,  *)
(* no other fraction is configured, and the spans started afterwards are   *)
(* sampled by that fraction.                                               *)
C9_RateSelectedByEnvironment ==
    mainPc \in {"logger", "ready"}
    => /\ env = "production" => samplingRate = 1
       /\ env \in {"development", ""} => samplingRate = 10
       /\ samplingRate \in {1, 10}
       /\ (IsValid(ctx) /\ env \in {"production", "development", ""})
          => ctx.sampled = TraceIDRatioBased(ClaimedRate(env), ctx.trace)

C9_Witness ==
    /\ mainPc = "ready"
    /\ env = "production"
    /\ samplingRate = 1
    /\ IsValid(ctx)
    /\ ~ctx.sampled

(***************************************************************************)
(* Further properties of the span pipeline, checked under PipelineSpec.    *)
(***************************************************************************)
InFlight == workerPc \in {"exporting", "hung"}

(* C11: a batch whose export failed is discarded and not retried: no span  *)
(* is passed to ExportSpans twice, within one call or in two calls; when   *)
(* the call in flight ends, with or without error, the batch is empty and  *)
(* no new call was made; and after a failure the worker is back in its     *)
(* loop, able to take the next span from the channel.                      *)
C11_FailedBatchDiscarded ==
    /\ [](\A i \in 1..Len(sends) :
            /\ Cardinality(Range(sends[i].items)) = Len(sends[i].items)
            /\ \A j \in 1..Len(sends) :
                 i < j => Range(sends[i].items) \cap Range(sends[j].items) = {})
    /\ [][(InFlight /\ ~InFlight')
            => (batch' = <<>> /\ sends' = sends /\ workerPc' = resume)]_vars
    /\ []((lastResult = "failed" /\ workerPc = "select" /\ Len(queue) > 0)
            => ENABLED ReceiveSpan)

C11_Witness ==
    /\ lastResult = "failed"
    /\ Len(sends) = 2
    /\ workerPc = "exporting"
    /\ Len(batch) = MaxExportBatchSize
    /\ dropped = 0

(***************************************************************************)
(* Properties of the metrics, checked under MetricsSpec.                   *)
(***************************************************************************)
AllAdded ==
    \A p \in Producers : pcM[p] = "idle" /\ tmp[p].calls = MaxAdds

RECURSIVE SumOver(_, _)
SumOver(f, S) ==
    IF S = {} THEN 0
    ELSE LET x == CHOOSE y \in S : TRUE IN f[x] + SumOver(f, S \ {x})

(* C12: no update of a counter is lost under concurrent Add: the sum of a  *)
(* key is at every moment the number of Add(1) calls on it that have       *)
(* returned, and when NumProducers producers have each made MaxAdds calls  *)
(* the sums add up to NumProducers * MaxAdds.                              *)
C12_NoLostUpdate ==
    /\ \A k \in Keys : sum[k] = added[k]
    /\ AllAdded => SumOver(sum, Keys) = NumProducers * MaxAdds

C12_Witness ==
    /\ AllAdded
    /\ sum["orders.created"] = NumProducers * MaxAdds
    /\ exports = <<>>

PointsOf(k) == [i \in 1..Len(exports) |-> exports[i].points[k]]

WellFormed(r) ==
    r.user_id # "" /\ r.product_id # "" /\ r.quantity > 0 /\ r.amount > 0

Responded == req.pc \in {"end", "mwEnd", "done"}

Returned == req.pc \in {"mwEnd", "done"}

C14_InvalidGets400 ==
    /\ req.body \in {"valid", "invalid"}
       => /\ (req.body = "valid") <=> WellFormed(req.order)
          /\ (validateRequest(req.order) = "nil") <=> WellFormed(req.order)
    /\ ~WellFormed(req.order)
       => /\ req.pc \in {"idle", "start", "decode", "validate", "end",
                         "mwEnd", "done"}
          /\ req.inv = "" /\ req.pay = ""
          /\ Len(spans) <= 2
          /\ \A i \in 1..Len(req.metrics) : req.metrics[i].name # "inventory.requests"
          /\ Responded => req.code = 400

C14_Witness ==
    /\ req.pc = "done"
    /\ req.body = "invalid"
    /\ req.order.user_id # ""
    /\ req.order.product_id # ""
    /\ req.order.quantity = 2
    /\ req.order.amount = 0
    /\ req.code = 400

Received(id) ==
    /\ id \notin Range(queue)
    /\ id \notin Range(batch) \/ workerPc \in {"exporting", "hung"}

StatusCodes == {"Unset", "Error", "Ok"}

(* C19 as claimed: once the status of a span is Error, no later operation  *)
(* on the span, SetStatus with any code or RecordError, leaves it with     *)
(* another status.                                                         *)
C19_ErrorIsFinal ==
    \A i \in 1..Len(spans) :
      spans[i].status = "Error"
      => /\ \A c \in StatusCodes : SetStatus(spans[i], c).status = "Error"
         /\ RecordError(spans[i]).status = "Error"

(* C19 as amended: the status of a span only moves up the order            *)
(* Unset < Error < Ok: SetStatus changes it only on a span still           *)
(* recording and only to a code of the same or a higher rank, so Ok is     *)
(* final while Error gives way to a later SetStatus(Ok); RecordError       *)
(* leaves the status as it is.  No step of CreateOrderHandler and its      *)
(* callees changes the status of a span that is Error, and a request       *)
(* answered with an error, a failed inventory check and a failed payment   *)
(* leave their recording spans with status Error.                          *)
C19_StatusMovesUpOnly ==
    /\ [](\A i \in 1..Len(spans) : \A c \in StatusCodes :
            LET now == spans[i].status
                then == SetStatus(spans[i], c).status
            IN /\ StatusRank(then) >= StatusRank(now)
               /\ then = (IF IsRecording(spans[i])
                             /\ StatusRank(c) >= StatusRank(now)
                          THEN c ELSE now)
               /\ RecordError(spans[i]).status = now)
    /\ [][\A i \in 1..Len(spans) :
            (served' = served /\ spans[i].status = "Error")
            => spans'[i].status = "Error"]_vars
    /\ []((Responded /\ req.code >= 400 /\ spans[2].sampled)
            => spans[2].status = "Error")
    /\ []((req.inv = "fail" /\ spans[3].sampled) => spans[3].status = "Error")
    /\ []((req.pay = "fail" /\ spans[4].sampled) => spans[4].status = "Error")

C19_Witness ==
    /\ req.pc = "done"
    /\ req.pay = "fail"
    /\ spans[2].status = "Error"
    /\ spans[2].errors = 1
    /\ spans[3].status = "Unset"
    /\ spans[4].status = "Error"

(***************************************************************************)
(* Properties of the span and shutdown API, checked under ApiSpec.         *)
(***************************************************************************)
TimesAccepted(s) == Cardinality({i \in 1..Len(accepted) : accepted[i] = s})

(* C16 as claimed: End on a span that has ended reports a                  *)
(* CallerMisuseError to the caller, and however often End is called the    *)
(* span is placed on the export queue at most once.                        *)
C16_SecondEndReported ==
    /\ reEnded # 0 => "CallerMisuseError" \in reported
    /\ \A s \in SpanIds : TimesAccepted(s) <= 1

(* C18 as claimed: of two calls of the shutdown function only the first    *)
(* performs the drain, and the second is a no-op that returns what the     *)
(* first returns.                                                          *)
C18_SecondShutdownSameOutcome ==
    (first # "none" /\ second \notin {"none", "meter"}) => second = first

(***************************************************************************)
(* Properties of the life of the process, checked under MainSpec.          *)
(***************************************************************************)
LifecycleOrder ==
    {<<"Stopped", "Starting">>, <<"Starting", "Running">>,
     <<"Running", "Draining">>, <<"Draining", "Stopped">>}

(* C17 as claimed: the lifecycle state changes only along Stopped ->       *)
(* Starting -> Running -> Draining -> Stopped, Running is never entered    *)
(* without the span worker and the metric worker both started, and         *)
(* Stopped is never reached from Running except through Draining.          *)
C17_LifecycleOrderOnly ==
    /\ [][lifecycle' # lifecycle
            => <<lifecycle, lifecycle'>> \in LifecycleOrder]_vars
    /\ [](lifecycle = "Running" => workers = {"span", "metric"})

Measured(n) == {i \in 1..Len(req.metrics) : req.metrics[i].name = n}

FailingStage ==
    CASE req.body = "malformed" -> "invalid_request"
      [] req.body = "invalid" -> "validation_error"
      [] OTHER -> "processing_error"

(* C22: a call of CreateOrderHandler that has answered has recorded        *)
(* exactly one outcome, sampled or not: on 201 one orders.created          *)
(* increment with status success, one orders.duration observation and one  *)
(* payments.total_amount addition of the request's amount, and no error;   *)
(* on 400 or 500 one errors.total increment whose error.type names the     *)
(* failing stage, and none of the three order measurements.                *)
C22_OneOutcomeRecorded ==
    Responded =>
      IF req.code = 201
      THEN /\ Cardinality(Measured("orders.created")) = 1
           /\ Cardinality(Measured("orders.duration")) = 1
           /\ Cardinality(Measured("payments.total_amount")) = 1
           /\ Measured("errors.total") = {}
           /\ \A i \in Measured("orders.created") :
                req.metrics[i] = OrderCounter
           /\ \A i \in Measured("payments.total_amount") :
                req.metrics[i].value = req.order.amount
      ELSE /\ req.code \in {400, 500}
           /\ Cardinality(Measured("errors.total")) = 1
           /\ \A i \in Measured("errors.total") :
                req.metrics[i] = ErrorCounter(FailingStage)
           /\ Measured("orders.created") = {}
           /\ Measured("orders.duration") = {}
           /\ Measured("payments.total_amount") = {}

C22_Witness ==
    /\ req.pc = "done"
    /\ req.code = 201
    /\ ~spans[2].sampled
    /\ Cardinality(Measured("orders.created")) = 1
    /\ Cardinality(Measured("payments.total_amount")) = 1

StepNames == <<"CheckInventory", "ProcessPayment", "ReserveInventory">>

Steps == [i \in 1..(Len(spans) - 2) |-> spans[i + 2].name]

(* C26: processOrder runs checkInventory, processPayment and               *)
(* reserveInventory in this order and stops at the first failure:          *)
(* processPayment is started only after checkInventory succeeded,          *)
(* reserveInventory only after processPayment succeeded, and processOrder  *)
(* returns an order id (the handler reaches its success branch) only       *)
(* after all three succeeded.                                              *)
C26_StepsInOrderUntilFailure ==
    Len(spans) >= 2 =>
      /\ Len(Steps) <= 3
      /\ \A i \in 1..Len(Steps) : Steps[i] = StepNames[i]
      /\ Len(Steps) >= 2 => req.inv = "ok"
      /\ Len(Steps) >= 3 => req.pay = "ok"
      /\ req.inv = "fail" => Len(Steps) = 1 /\ req.pay = ""
      /\ req.pay = "fail" => Len(Steps) = 2
      /\ (req.pc = "respond" \/ req.code = 201)
         => /\ Len(Steps) = 3
            /\ req.inv = "ok" /\ req.pay = "ok"
            /\ \A i \in 3..5 : spans[i].fate # "open"

C26_Witness ==
    /\ req.pc = "done"
    /\ req.pay = "fail"
    /\ req.inv = "ok"
    /\ Len(spans) = 4
    /\ req.code = 500

HandlerSpans == 2..Len(spans)

(* C27: on every path through CreateOrderHandler each span the handler     *)
(* and its callees started is ended exactly once, each child span is       *)
(* ended before the CreateOrder span is, and nothing is written to a span  *)
(* after its End: an ended span stays as it is.                            *)
C27_EndedOnceChildrenFirstNoLateWrite ==
    /\ [](\A i \in HandlerSpans :
            /\ spans[i].ends <= 1
            /\ spans[i].late = 0
            /\ spans[i].fate # "open" <=> spans[i].ends = 1)
    /\ [](Returned => \A i \in HandlerSpans : spans[i].ends = 1)
    /\ []((Len(spans) >= 2 /\ spans[2].fate # "open")
            => \A i \in HandlerSpans : spans[i].fate # "open")
    /\ [][served' = served
            => /\ \A i \in HandlerSpans :
                    spans[i].fate # "open" => spans'[i] = spans[i]
               /\ (Len(spans') > Len(spans) /\ Len(spans) >= 2)
                    => spans[2].fate = "open"]_vars

C27_Witness ==
    /\ req.pc = "done"
    /\ req.code = 201
    /\ Len(spans) = 5
    /\ \A i \in HandlerSpans : spans[i].ends = 1 /\ spans[i].late = 0
    /\ spans[2].sampled

(***************************************************************************)
(* Properties of the shutdown function, checked under ShutdownSpec.        *)
(***************************************************************************)
(* C23 as claimed: every call of the shutdown function that has returned   *)
(* has shut down the tracer provider and then attempted the shutdown of    *)
(* the meter provider, also when the tracer provider's shutdown returned   *)
(* an error.                                                               *)
C23_MeterShutdownAlwaysAttempted ==
    first # "none" => (shutdownErr # "none" /\ stopped /\ readerShut)

(***************************************************************************)
(* Further properties of the life of the process, checked under MainSpec.  *)
(***************************************************************************)
InitSucceeded == mainPc \in {"serving", "httpShutdown", "deferred"}

(* C24 as claimed: on every path from a successful InitObservability to    *)
(* the exit of the process the telemetry shutdown function has been        *)
(* invoked before the exit, and it is invoked only after the HTTP server   *)
(* has stopped accepting requests.                                         *)
C24_ShutdownInvokedBeforeExit ==
    /\ [][(InitSucceeded /\ mainPc' = "exited") => stopped]_vars
    /\ [](stopped => mainPc \in {"deferred", "exited"})

(* C25 as claimed: when InitObservability has returned an error, no        *)
(* global tracer provider, meter provider or propagator has been           *)
(* installed and no export worker is running.                              *)
C25_InitAllOrNothing ==
    mainPc = "initFailed" => (globals = {} /\ workers = {})

====
